---- MODULE Spec2Model ----
(***************************************************************************)
(* A model of the OneDrive client of src/OneDrive_API.py: construction     *)
(* from a settings dictionary, the connection guard (_CheckConnected),     *)
(* the token lifecycle (_RefreshToken, _CheckLastHeartbeat), the error     *)
(* log (_CheckError, _FetchErrors) and the batch loops of Upload and       *)
(* Download with their worker threads.                                     *)
(*                                                                         *)
(* Strings that the code builds by concatenation are sequences of their    *)
(* pieces (<<"Bearer ", tok>>); file names are the positions 1..L of the   *)
(* files in the caller's list or in the remote listing.                    *)
(***************************************************************************)
EXTENDS Integers, Sequences, FiniteSets, TLC

(* ---------------------------------------------------------------- bounds *)

\* Longest list of files handed to Upload / listed for Download (SpecBatch).
MaxItems == 5
\* Largest max_threads of a client in SpecBatch.
MaxThreads == 2
\* Longest list of files in SpecRefresh.
MaxItemsRefresh == 3
\* Longest list of files in the whole-lifecycle specification Spec.
MaxItemsLife == 1
\* Largest max_threads, refresh_interval, number_retry_connection given in
\* the settings of Spec.
MaxThreadsLife == 1
MaxInterval == 1
MaxRetry == 2
\* The clock runs from StartClock to MaxClock; the probe of the drive first
\* answers 200 on attempt 1..MaxPlan, or never (0).
MaxClock == 2
MaxPlan == 2
\* The connect loop of a client whose retry limit is never met is counted
\* for AttemptCap iterations and one more.
AttemptCap == 3

(* ------------------------------------------------------ program constants *)

DefaultRefreshInterval == 3600
DefaultNumberRetry == 50
StatusOK == 200

(* ----------------------------------------------------------------- state *)

VARIABLES
    \* the required settings that the dictionary handed to the constructor
    \* lacks or gives with the wrong type, and the settings as set by
    \* _SetParameters
    settings, max_threads, refresh_interval, number_retry_connection,
    \* session
    token, refresh_token, headers, last_updated, is_connected,
    \* error log, its mutex, worker registry
    errors, mutex, threads,
    \* environment: wall clock, and the attempt on which the probe answers 200
    clock, probe_plan,
    \* orchestrating thread: position, continuation of the guard, public
    \* operation in progress, and its locals
    pc, ret, op, attempts, nitems, specific, index, tolaunch,
    \* the steps that the single-request operation in progress has yet to take
    todo,
    \* worker threads, by item: position, what happened to the transfer, the
    \* headers handed to the thread, and the operation that started it
    wpc, res, wheaders, wop,
    \* observations: result of the operation, launches per batch, network
    \* calls of the current guard call, the last _RefreshToken call, the last
    \* two _CheckLastHeartbeat calls, and, of the operation in progress, the
    \* guard calls that returned and the data requests sent by the
    \* orchestrating thread
    outcome, raised, batches, probes, exchanges, rt_call, hb_calls,
    guards_ok, data_requests

cfgvars == <<settings, max_threads, refresh_interval, number_retry_connection>>
sessvars == <<token, refresh_token, headers, last_updated, is_connected>>
sinkvars == <<errors, mutex>>
envvars == <<clock, probe_plan>>
loopvars == <<nitems, specific, index, tolaunch, todo>>
workvars == <<wpc, res, wheaders, wop>>
obsvars == <<outcome, raised, batches>>
netvars == <<probes, exchanges, rt_call, hb_calls, guards_ok, data_requests>>

vars == <<settings, max_threads, refresh_interval, number_retry_connection,
          token, refresh_token, headers, last_updated, is_connected,
          errors, mutex, threads, clock, probe_plan,
          pc, ret, op, attempts, nitems, specific, index, tolaunch, todo,
          wpc, res, wheaders, wop, outcome, raised, batches, probes, exchanges,
          rt_call, hb_calls, guards_ok, data_requests>>

StartClock == 1
\* Files are the positions 1..L of a list; position 0 is no file (the empty
\* specific_file), and FileName gives a position its name.
Items == 1..MaxItems
NoItem == 0
FileName(i) == <<"f1", "f2", "f3", "f4", "f5", "f6", "f7", "f8", "f9">>[i]

(* -------------------------------------------------------------- settings *)

IntKeys == {"max_threads", "refresh_interval", "number_retry_connection"}
OtherKeys == {"refresh_token", "browse_url", "auth_url", "client_id",
              "permissions", "redirect_uri"}
\* The order in which _SetParameters reads the required settings.
RequiredOrder == <<"max_threads", "refresh_token", "browse_url", "auth_url",
                   "client_id", "permissions", "redirect_uri">>

IntParam(S) == {[kind |-> "missing", val |-> 0], [kind |-> "badtype", val |-> 0]}
               \cup {[kind |-> "int", val |-> v] : v \in S}

\* What the list "permissions" holds: strings only ("str"), or the type of
\* its first item that is no string.
ItemTypes == {"str", "int", "NoneType"}

\* A settings dictionary: which of the string/list keys are absent or of the
\* wrong type, what a list given for "permissions" holds, and the three
\* integer settings.  The retry limit is read by the connect loop only, which
\* runs in the constructor (is_connected is never reset): it is given with
\* one thread and no refresh interval.  A negative refresh interval, with
\* which every guard call exchanges the token, is given with one thread
\* (SpecRefresh has the exchange before batches of several threads).
ParamSpace ==
    {p \in [absent : SUBSET OtherKeys,
            mistyped : {{}} \cup {{k} : k \in OtherKeys},
            permissions_items : ItemTypes,
            max_threads : IntParam(-1..MaxThreadsLife),
            refresh_interval : IntParam(-1..MaxInterval),
            number_retry_connection : IntParam(0..MaxRetry)] :
        /\ p.permissions_items # "str" => "permissions" \notin p.absent \cup p.mistyped
        /\ p.number_retry_connection.kind = "int" =>
              /\ p.refresh_interval.kind = "missing"
              /\ p.max_threads = [kind |-> "int", val |-> 1]
        /\ (p.refresh_interval.kind = "int" /\ p.refresh_interval.val < 0) =>
              p.max_threads = [kind |-> "int", val |-> 1]}

Given(parameters, var) ==
    IF var \in IntKeys THEN parameters[var].kind # "missing"
                       ELSE var \notin parameters.absent

TypeOk(parameters, var) ==
    IF var \in IntKeys THEN parameters[var].kind = "int"
                       ELSE var \notin parameters.mistyped

\* The required settings that a dictionary lacks, and those it gives with
\* the wrong type.
Required == {RequiredOrder[k] : k \in 1..Len(RequiredOrder)}
Lacking(parameters) ==
    [absent |-> {var \in Required : ~Given(parameters, var)},
     mistyped |-> {var \in Required : Given(parameters, var) /\ ~TypeOk(parameters, var)}]
NoSettings == [absent |-> {}, mistyped |-> {}]

SetsAndChecksVariableLenient(parameters, var) ==
    IF Given(parameters, var) /\ ~TypeOk(parameters, var) THEN "bad_type" ELSE "ok"

\* _SetsAndChecksVariable: "ok", or the exception it raises.
SetsAndChecksVariable(parameters, var) ==
    IF ~Given(parameters, var) THEN "not_given"
    ELSE IF TypeOk(parameters, var) THEN "ok"
    ELSE "bad_type"

\* _SetsAndChecksVariableWithDefaultValue: the value the member gets.
SetsAndChecksVariableWithDefaultValue(parameters, var, default_value) ==
    IF SetsAndChecksVariable(parameters, var) = "ok"
    THEN parameters[var].val ELSE default_value

VariableError(var, status) ==
    IF status = "not_given"
    THEN <<"The variable \"", var, "\" is not given in the settings-json-file.">>
    ELSE <<"The variable \"", var, "\" did not match the specified data type">>

\* Position in RequiredOrder of the first required setting that raises, or 0.
FirstBad(parameters) ==
    LET bad == {k \in 1..Len(RequiredOrder) :
                  SetsAndChecksVariable(parameters, RequiredOrder[k]) # "ok"}
    IN IF bad = {} THEN 0 ELSE CHOOSE k \in bad : \A j \in bad : k <= j

\* str(ex) of the TypeError of line 100, self.scope + self.permissions[items]
\* with an item of another type than str.
ScopeError(item_type) == <<"can only concatenate str (not \"", item_type, "\") to str">>

\* _SetParameters: whether it returns, the exception it raises otherwise, and
\* the members it has set by then.  The scope is joined (lines 98-102) after
\* all settings are read.
SetParameters(parameters) ==
    LET k == FirstBad(parameters) IN
    IF k = 0
    THEN [ok |-> parameters.permissions_items = "str",
          error |-> IF parameters.permissions_items = "str" THEN <<>>
                    ELSE <<"Could not initialize parameters: ">> \o
                         ScopeError(parameters.permissions_items),
          max_threads |-> parameters.max_threads.val,
          refresh_interval |->
              SetsAndChecksVariableWithDefaultValue(
                  parameters, "refresh_interval", DefaultRefreshInterval),
          number_retry_connection |->
              SetsAndChecksVariableWithDefaultValue(
                  parameters, "number_retry_connection", DefaultNumberRetry)]
    ELSE [ok |-> FALSE,
          error |-> <<"Could not initialize parameters: ">> \o
                    VariableError(RequiredOrder[k],
                        SetsAndChecksVariable(parameters, RequiredOrder[k])),
          max_threads |-> IF k > 1 THEN parameters.max_threads.val ELSE 0,
          refresh_interval |-> 0,
          number_retry_connection |-> 0]

(* --------------------------------------------------------------- session *)

AccessTokens == {"a1", "a2"}
RefreshTokens == {"r1"}
NoField == "absent"
\* An access_token that the answer gives as a number, not as a string.
IntToken == "(int) 5"
IsStr(tok) == tok # IntToken

\* What the auth endpoint does with a token exchange: the call itself fails,
\* or it answers JSON with or without each of the two fields, the
\* access_token a string or not.
AuthResponses ==
    [transport_ok : {FALSE}, access_token : {NoField}, refresh_token : {NoField}]
    \cup [transport_ok : {TRUE},
          access_token : AccessTokens \cup {NoField, IntToken},
          refresh_token : RefreshTokens \cup {NoField}]

Bearer(tok) == {<<"Authorization", <<"Bearer ", tok>>>>}

\* str(ex) of what requests raises when a request cannot be made.
TransportError == <<"transport error">>
\* str(ex) of the KeyError of a field that the answer lacks (lines 147, 148).
FieldError(field) == <<"'", field, "'">>
\* str(ex) of the TypeError of 'Bearer ' + self.token (line 150) for a token
\* that is no string.
TokenError == <<"can only concatenate str (not \"int\") to str">>

Session == [token |-> token, refresh_token |-> refresh_token,
            headers |-> headers, last_updated |-> last_updated]

\* _RefreshToken on session s with the auth endpoint answering response at
\* time now: the session afterwards, whether the call raised, and with
\* what.  The four assignments of lines 147-150 happen in order; a missing
\* field raises at its line, a token that is no string at line 150, and
\* each leaves the earlier assignments in place.
RefreshToken(s, response, now) ==
    IF ~response.transport_ok
    THEN [session |-> s, raised |-> TRUE, error |-> TransportError]
    ELSE IF response.access_token = NoField
    THEN [session |-> s, raised |-> TRUE, error |-> FieldError("access_token")]
    ELSE LET s1 == [s EXCEPT !.token = response.access_token] IN
         IF response.refresh_token = NoField
         THEN [session |-> s1, raised |-> TRUE,
               error |-> FieldError("refresh_token")]
         ELSE LET s3 == [s1 EXCEPT !.refresh_token = response.refresh_token,
                                   !.last_updated = now] IN
              IF ~IsStr(s3.token)
              THEN [session |-> s3, raised |-> TRUE, error |-> TokenError]
              ELSE [session |-> [s3 EXCEPT !.headers = Bearer(s3.token)],
                    raised |-> FALSE, error |-> <<>>]

\* What a failed _RefreshToken can raise.
AuthErrors == {TransportError, FieldError("access_token"),
               FieldError("refresh_token"), TokenError}
ConnectionError == <<"Could not connect to OneDrive">>

(* ------------------------------------------------------------- error log *)

\* A response as _CheckError sees it: a requests.Response (ok or not), a
\* parsed dict, or anything else.  Of a dict it reads how many of its keys
\* contain "error" (error_keys) and what response["error"]["code"] gives
\* (code): a string, or no key "error", no key "code", or a number.
ErrorCode == "code"
CodeKinds == {ErrorCode, "no_error_key", "no_code", "numeric_code"}
ResponseObj(o) == [type |-> "Response", ok |-> o, error_keys |-> 0, code |-> ErrorCode]
Dict(n, c) == [type |-> "dict", ok |-> FALSE, error_keys |-> n, code |-> c]
OtherObj == [type |-> "NoneType", ok |-> FALSE, error_keys |-> 0, code |-> ErrorCode]
\* The dict with the one key "error" holding a string code (e), or with no
\* key that contains "error".
DictObj(e) == Dict(IF e THEN 1 ELSE 0, ErrorCode)

\* str(ex) of the exception of line 192 for a code that is no string.
CodeError(c) ==
    CASE c = "no_error_key" -> <<"'error'">>
      [] c = "no_code" -> <<"'code'">>
      [] c = "numeric_code" -> <<"can only concatenate str (not \"int\") to str">>

\* error_text after line 192 has run for n keys.
RECURSIVE WithCodes(_, _)
WithCodes(error_text, n) ==
    IF n = 0 THEN error_text
    ELSE WithCodes(error_text \o <<" (Code: ", ErrorCode, ")">>, n - 1)

\* _CheckError up to line 194: whether an error occurred and the text saved,
\* or the exception raised at line 192 (before anything is saved).
CheckError(error_text, response) ==
    IF response.type = "Response"
    THEN [error_occurred |-> ~response.ok, text |-> error_text, raised |-> <<>>]
    ELSE IF response.type = "dict"
    THEN IF response.error_keys = 0
         THEN [error_occurred |-> FALSE, text |-> error_text, raised |-> <<>>]
         ELSE IF response.code # ErrorCode
         THEN [error_occurred |-> TRUE, text |-> error_text,
               raised |-> CodeError(response.code)]
         ELSE [error_occurred |-> TRUE,
               text |-> WithCodes(error_text, response.error_keys),
               raised |-> <<>>]
    ELSE [error_occurred |-> TRUE, text |-> error_text, raised |-> <<>>]

\* What a request answered with JSON gives _CheckError, by what the service
\* does: an object without or with an error, an error object next to a second
\* key that contains "error" (as "error_description"), an object whose
\* error has no code ("bad_error") or a number as code, an object with a key
\* that contains "error" (as "lasterror") but no key "error", or JSON that is
\* no object.
JsonAnswer(o) ==
    CASE o = "ok" -> DictObj(FALSE)
      [] o \in {"error", "remote_error"} -> DictObj(TRUE)
      [] o = "error_twice" -> Dict(2, ErrorCode)
      [] o = "bad_error" -> Dict(1, "no_code")
      [] o = "numeric_code" -> Dict(1, "numeric_code")
      [] o = "no_error_key" -> Dict(1, "no_error_key")
      [] o = "not_dict" -> OtherObj

\* ". ".join(errors)
RECURSIVE JoinErrors(_)
JoinErrors(errs) ==
    IF errs = <<>> THEN <<>>
    ELSE IF Len(errs) = 1 THEN errs[1]
    ELSE errs[1] \o <<". ">> \o JoinErrors(Tail(errs))

Str(s) == IF s = "" THEN <<>> ELSE <<s>>

LogHoldsSeveral(errs) == Len(errs) > 1

\* The test of line 207.
LogHoldsErrors(errs) == Len(errs) # 0

\* The message _FetchErrors raises for a non-empty log.
FetchErrorsText(prefix, errs) == Str(prefix) \o JoinErrors(errs)

\* What the log is after _FetchErrors has read it.
FetchErrorsLog(errs) == <<>>

AppendErrorOverwrites(errs, error_text) == <<error_text>>

\* The log after the append of line 197.
AppendError(errs, error_text) == Append(errs, error_text)

(* ---------------------------------------------------------------- workers *)

UploadOutcomes == {"missing_file", "exception", "ok", "remote_error", "not_dict",
                   "error_twice"}
DownloadOutcomes == {"exception", "ok", "http_error", "write_error"}
LocalPath == "path_local"

\* What a worker does after its transfer: it ends ("done"), ends by an
\* uncaught exception ("dead"), or goes on to save text in the log ("record");
\* request says whether its request to the remote API was made: "none",
\* "sent", or "unknown" where the exception may have come before or from it.
WorkerEnd(check, request) ==
    IF check.raised # <<>>
    THEN [next |-> "dead", text |-> <<>>, request |-> request]
    ELSE IF check.error_occurred
    THEN [next |-> "record", text |-> check.text, request |-> request]
    ELSE [next |-> "done", text |-> <<>>, request |-> request]

UploadInternUnchecked(i, o) ==
    IF o \in {"missing_file", "exception"}
    THEN [next |-> "dead", text |-> <<>>, request |-> "none"]
    ELSE WorkerEnd(CheckError(<<"Could not upload ", FileName(i)>>, JsonAnswer(o)),
                   "sent")

\* UploadIntern for file i when the environment does o: the local file is
\* missing, the thread ends by an uncaught exception ("exception": open, put
\* or json.loads raises, or line 192 does on an error object whose code it
\* cannot append; nothing is saved), or the service answers as JsonAnswer
\* says.
UploadIntern(i, o) ==
    IF o = "missing_file"
    THEN WorkerEnd(CheckError(
             <<"Could not upload ", FileName(i), ": File does not exist">>, OtherObj),
             "none")
    ELSE IF o = "exception"
    THEN [next |-> "dead", text |-> <<>>, request |-> "unknown"]
    ELSE WorkerEnd(CheckError(<<"Could not upload ", FileName(i)>>, JsonAnswer(o)),
                   "sent")

\* DownloadIntern for file i when the environment does o: requests.get
\* raises, the response is not ok, or it is ok and the local write succeeds
\* or fails.
DownloadIntern(i, o) ==
    IF o = "exception"
    THEN [next |-> "dead", text |-> <<>>, request |-> "unknown"]
    ELSE LET first == CheckError(<<"Could not download ", FileName(i)>>,
                                 ResponseObj(o # "http_error")) IN
         IF first.error_occurred THEN WorkerEnd(first, "sent")
         ELSE IF o = "write_error"
         THEN WorkerEnd(CheckError(<<"Could not write ", LocalPath, " to drive">>,
                                   OtherObj), "sent")
         ELSE [next |-> "done", text |-> <<>>, request |-> "sent"]

Intern(o_p, i, o) == IF o_p = "Upload" THEN UploadIntern(i, o) ELSE DownloadIntern(i, o)

Outcomes(o_p) == IF o_p = "Upload" THEN UploadOutcomes ELSE DownloadOutcomes

Finished == {"done", "dead"}
Running == {i \in Items : wpc[i] \notin (Finished \cup {"idle"})}

(* ------------------------------------------------------------------ init *)

NoSession == [token |-> "", refresh_token |-> "", headers |-> {},
              last_updated |-> 0]
NoRefresh == [status |-> "none", before |-> NoSession, error |-> <<>>]

InitCommon ==
    /\ errors = <<>> /\ mutex = "free" /\ threads = <<>>
    /\ ret = "none" /\ op = "none" /\ attempts = 0
    /\ nitems = 0 /\ specific = NoItem /\ index = 0 /\ tolaunch = 0
    /\ todo = <<>>
    /\ settings = NoSettings
    /\ wpc = [i \in Items |-> "idle"]
    /\ res = [i \in Items |-> "none"]
    /\ wheaders = [i \in Items |-> {}]
    /\ wop = [i \in Items |-> "none"]
    /\ outcome = "none" /\ raised = <<>> /\ batches = <<>>
    /\ probes = 0 /\ exchanges = 0
    /\ rt_call = NoRefresh /\ hb_calls = <<>>
    /\ guards_ok = 0 /\ data_requests = 0

\* The object as __init__ leaves it before _SetParameters (lines 19-37).
Init ==
    /\ InitCommon
    /\ clock = StartClock
    /\ pc = "new"
    /\ max_threads = 0 /\ refresh_interval = 0 /\ number_retry_connection = 0
    /\ token = "" /\ refresh_token = "" /\ headers = {} /\ last_updated = 0
    /\ is_connected = FALSE
    /\ probe_plan = 0

(* ------------------------------------------------- orchestrator: helpers *)

\* An exception leaves the public operation (or the constructor).
Fail(msg) ==
    /\ pc' = IF op = "ctor" THEN "ctor_failed" ELSE "idle"
    /\ outcome' = "raised"
    /\ raised' = msg

Return ==
    /\ pc' = "idle"
    /\ outcome' = "returned"
    /\ UNCHANGED raised

\* Entry of _CheckConnected, to continue at r.
EnterGuard(r) ==
    /\ pc' = "cc_loop" /\ ret' = r
    /\ attempts' = 0 /\ probes' = 0 /\ exchanges' = 0

SetSession(s) ==
    /\ token' = s.token /\ refresh_token' = s.refresh_token
    /\ headers' = s.headers /\ last_updated' = s.last_updated

ProbeStatus(attempt) ==
    IF probe_plan # 0 /\ attempt >= probe_plan THEN StatusOK ELSE 503

Last2(s) == IF Len(s) <= 2 THEN s ELSE SubSeq(s, Len(s) - 1, Len(s))

(* ------------------------------------- construction and connection guard *)

\* OneDrive(connection_parameters): _SetParameters, then _CheckConnected.
Construct ==
    /\ pc = "new"
    /\ \E parameters \in ParamSpace :
         LET r == SetParameters(parameters) IN
         /\ settings' = Lacking(parameters)
         /\ max_threads' = r.max_threads
         /\ refresh_interval' = r.refresh_interval
         /\ number_retry_connection' = r.number_retry_connection
         /\ refresh_token' = IF FirstBad(parameters) \in {1, 2} THEN "" ELSE "r0"
         /\ op' = "ctor"
         /\ IF r.ok
            THEN /\ EnterGuard("ctor")
                 /\ outcome' = "running" /\ raised' = <<>>
                 /\ \E plan \in 0..MaxPlan : probe_plan' = plan
            ELSE /\ pc' = "ctor_failed"
                 /\ outcome' = "raised" /\ raised' = r.error
                 /\ UNCHANGED <<ret, attempts, probes, exchanges, probe_plan>>
    /\ UNCHANGED <<token, headers, last_updated, is_connected, sinkvars, threads,
                   clock, loopvars, workvars, batches, rt_call, hb_calls,
                   guards_ok, data_requests>>

\* _CheckConnected, lines 167-168 with the connection up: on to the heartbeat.
CCConnected ==
    /\ pc = "cc_loop" /\ is_connected
    /\ pc' = "cc_hb"
    /\ UNCHANGED <<cfgvars, sessvars, sinkvars, threads, envvars, ret, op,
                   attempts, loopvars, workvars, obsvars, netvars>>

\* The retry limit against the attempt just counted (line 170).
LimitReached(n, limit) == n = limit

\* attempts is past the limit, which it can then never equal again, and past
\* AttemptCap: from here on every iteration of the loop is like the one
\* before, and the counters (attempts, exchanges, probes) stand still.
Uncounted(n, limit) == limit < n /\ n > AttemptCap

\* attempts += 1 (line 169).
CountAttempt(n, limit) == IF Uncounted(n, limit) THEN n ELSE n + 1

\* _CheckConnected, lines 168-171: one more attempt, or the connection error.
CCAttempt ==
    /\ pc = "cc_loop" /\ ~is_connected
    /\ attempts' = CountAttempt(attempts, number_retry_connection)
    /\ IF LimitReached(attempts + 1, number_retry_connection)
       THEN Fail(ConnectionError)
       ELSE pc' = "connect" /\ UNCHANGED <<outcome, raised>>
    /\ UNCHANGED <<cfgvars, sessvars, sinkvars, threads, envvars, ret, op,
                   loopvars, workvars, batches, netvars>>

\* The time that passes while a request is under way, and the clock after it.
Elapsed == {0, 1}
Later(now, d) == IF now + d <= MaxClock THEN now + d ELSE now

ConnectSwallows(r) == FALSE

\* Neither _Connect (line 126) nor _CheckConnected (line 172) handles an
\* exception of _RefreshToken: it leaves both.
ConnectRaises(r) == r.raised

\* _Connect (line 172): the token exchange, then the probe of me/drive/,
\* which answers with a status or raises (line 127); nothing handles its
\* exception either.
Connect ==
    /\ pc = "connect"
    /\ \E response \in AuthResponses, answered \in BOOLEAN, d \in Elapsed :
         LET r == RefreshToken(Session, response, Later(clock, d)) IN
         /\ clock' = Later(clock, d)
         /\ SetSession(r.session)
         /\ exchanges' = CountAttempt(exchanges, number_retry_connection)
         /\ rt_call' = [status |-> IF r.raised THEN "raised" ELSE "ok",
                        before |-> Session, error |-> r.error]
         /\ IF ConnectRaises(r)
            THEN /\ Fail(r.error)
                 /\ UNCHANGED <<is_connected, probes>>
            ELSE /\ probes' = CountAttempt(probes, number_retry_connection)
                 /\ IF answered
                    THEN /\ is_connected' = (ProbeStatus(attempts) = StatusOK)
                         /\ pc' = "cc_sleep"
                         /\ UNCHANGED <<outcome, raised>>
                    ELSE /\ Fail(TransportError)
                         /\ UNCHANGED is_connected
    /\ UNCHANGED <<cfgvars, sinkvars, threads, probe_plan, ret, op, attempts,
                   loopvars, workvars, batches, hb_calls, guards_ok, data_requests>>

\* time.sleep(0.5) of line 173: the clock may move on.
CCSleep ==
    /\ pc = "cc_sleep"
    /\ pc' = "cc_loop"
    /\ \E d \in Elapsed : clock' = Later(clock, d)
    /\ UNCHANGED <<cfgvars, sessvars, sinkvars, threads, probe_plan, ret, op,
                   attempts, loopvars, workvars, obsvars, netvars>>

StaleAtInterval(now, last, interval) == now - last >= interval

\* The test of line 158.
Stale(now, last, interval) == now - last > interval

\* _CheckLastHeartbeat (line 174): the clock is read (line 157), and again
\* by _RefreshToken once the token endpoint has answered (line 149).
CCHeartbeat ==
    /\ pc = "cc_hb"
    /\ LET now == clock IN
       IF Stale(now, last_updated, refresh_interval)
       THEN \E response \in AuthResponses, d \in Elapsed :
              LET r == RefreshToken(Session, response, Later(clock, d)) IN
              /\ clock' = Later(clock, d)
              /\ SetSession(r.session)
              /\ exchanges' = exchanges + 1
              /\ rt_call' = [status |-> IF r.raised THEN "raised" ELSE "ok",
                             before |-> Session, error |-> r.error]
              /\ hb_calls' = Last2(Append(hb_calls,
                     [now |-> now, last |-> last_updated, called |-> TRUE,
                      refreshed |-> ~r.raised]))
              /\ IF r.raised
                 THEN Fail(r.error)
                 ELSE pc' = "cc_wait" /\ UNCHANGED <<outcome, raised>>
       ELSE /\ hb_calls' = Last2(Append(hb_calls,
                   [now |-> now, last |-> last_updated, called |-> FALSE,
                    refreshed |-> FALSE]))
            /\ pc' = "cc_wait"
            /\ UNCHANGED <<token, refresh_token, headers, last_updated, clock,
                           exchanges, rt_call, outcome, raised>>
    /\ UNCHANGED <<cfgvars, is_connected, sinkvars, threads, probe_plan, ret, op,
                   attempts, loopvars, workvars, batches, probes, guards_ok,
                   data_requests>>

\* _CheckRequestsCompleted (line 175), then back to the caller of the guard;
\* the constructor returns here, and the connect loop never runs again (the
\* connection stays up), so the probe's plan is over.
CCWait ==
    /\ pc = "cc_wait"
    /\ threads = <<>>
    /\ IF ret = "ctor"
       THEN Return /\ probe_plan' = 0
       ELSE pc' = ret /\ UNCHANGED <<outcome, raised, probe_plan>>
    /\ guards_ok' = guards_ok + 1
    /\ UNCHANGED <<cfgvars, sessvars, sinkvars, threads, clock, ret, op,
                   attempts, loopvars, workvars, batches, probes, exchanges,
                   rt_call, hb_calls, data_requests>>

\* Time passes: between two public operations, and during one, whose guard
\* reads the clock at each of its calls (line 157).
Tick ==
    /\ pc \notin {"new", "ctor_failed", "del_join", "deleted"}
    /\ clock < MaxClock
    /\ clock' = clock + 1
    /\ UNCHANGED <<cfgvars, sessvars, sinkvars, threads, probe_plan, pc, ret, op,
                   attempts, loopvars, workvars, obsvars, netvars>>

(* ------------------------------------------------------ Upload, Download *)

\* The thread of item i is in self.threads.
Registered(i) == \E k \in 1..Len(threads) : threads[k] = i

\* A public operation is called: its locals and the observations start anew.
\* The threads an earlier call left in self.threads (one that raised inside
\* its for loop) are still there, running or ended.
StartOp(o_p, n, s, steps) ==
    /\ pc = "idle"
    /\ op' = o_p /\ nitems' = n /\ specific' = s
    /\ index' = 0 /\ tolaunch' = 0 /\ todo' = steps
    /\ wpc' = [i \in Items |-> IF Registered(i) THEN wpc[i] ELSE "idle"]
    /\ res' = [i \in Items |-> IF Registered(i) THEN res[i] ELSE "none"]
    /\ wheaders' = [i \in Items |-> IF Registered(i) THEN wheaders[i] ELSE {}]
    /\ wop' = [i \in Items |-> IF Registered(i) THEN wop[i] ELSE "none"]
    /\ outcome' = "running" /\ raised' = <<>> /\ batches' = <<>>
    /\ rt_call' = NoRefresh /\ hb_calls' = <<>>
    /\ guards_ok' = 0 /\ data_requests' = 0
    /\ UNCHANGED <<cfgvars, sessvars, sinkvars, threads, envvars>>

StartCall(o_p, n, s) == StartOp(o_p, n, s, <<>>)

\* Upload(filenames, path_onedrive) with n files: line 370.
UploadCall(n) ==
    /\ StartCall("Upload", n, NoItem)
    /\ EnterGuard("up_body")

\* Download(path_onedrive, path_local, specific_file) with n files listed in
\* the remote directory; s = NoItem is the empty specific_file: line 420.
DownloadCall(n, s) ==
    /\ StartCall("Download", n, s)
    /\ EnterGuard("dl_body")

\* The path_onedrive given to Upload: empty or not.
Paths == {"", "path_onedrive"}
\* str(ex) of the IndexError of path_onedrive[0] (line 371).
StringIndexError == <<"string index out of range">>

\* Upload, lines 371-377: the first and last character of path_onedrive are
\* read, then index = len(filenames).
UpBody ==
    /\ pc = "up_body"
    /\ \E path_onedrive \in Paths :
         IF path_onedrive = ""
         THEN Fail(StringIndexError) /\ UNCHANGED index
         ELSE index' = nitems /\ pc' = "loop" /\ UNCHANGED <<outcome, raised>>
    /\ UNCHANGED <<cfgvars, sessvars, sinkvars, threads, envvars, ret, op,
                   attempts, nitems, specific, tolaunch, todo, workvars, batches,
                   netvars>>

\* What lines 421-422 find: path_local exists, or os.makedirs creates it, or
\* raises because path_local is empty, because the directory it is to lie in
\* is gone, or because a regular file is in its way.
MakedirsFailures == {"empty_path", "no_parent", "parent_is_file"}
LocalDirs == {"exists", "created"} \cup MakedirsFailures
\* str(ex) of the OSError of os.makedirs: errno, strerror and repr(path).
MakedirsError(d) ==
    CASE d = "empty_path" -> <<"[Errno 2] No such file or directory: ", "''">>
      [] d = "no_parent" -> <<"[Errno 2] No such file or directory: ", "'", LocalPath, "'">>
      [] d = "parent_is_file" -> <<"[Errno 20] Not a directory: ", "'file/", LocalPath, "'">>

\* Download, lines 421-424: the local directory, then FetchAllFiles, which
\* starts with its own guard call.
DlBody ==
    /\ pc = "dl_body"
    /\ \E d \in LocalDirs :
         IF d \in MakedirsFailures
         THEN /\ Fail(MakedirsError(d))
              /\ UNCHANGED <<ret, attempts, probes, exchanges>>
         ELSE /\ EnterGuard("dl_list")
              /\ UNCHANGED <<outcome, raised>>
    /\ UNCHANGED <<cfgvars, sessvars, sinkvars, threads, envvars, op,
                   loopvars, workvars, batches, rt_call, hb_calls, guards_ok,
                   data_requests>>

\* What the service does with a request of the orchestrator: the request or
\* json.loads raises ("exception"), or the JSON of JsonAnswer comes back.
ListingOutcomes == {"ok", "error", "error_twice", "bad_error", "numeric_code",
                    "no_error_key", "not_dict", "exception"}

\* FetchAllFiles, lines 258-271, and Download, lines 425-426: the listing
\* request answers the files, an error object, JSON that is no object, or fails.
DlList ==
    /\ pc = "dl_list"
    /\ \E o \in ListingOutcomes :
         IF o = "exception"
         THEN Fail(TransportError) /\ UNCHANGED <<errors, index>>
         ELSE LET c == CheckError(<<"Could not fetch all files from ", "path_onedrive">>,
                                  JsonAnswer(o))
                  log == IF c.error_occurred THEN AppendError(errors, c.text)
                                             ELSE errors
              IN IF c.raised # <<>>
                 THEN Fail(c.raised) /\ UNCHANGED <<errors, index>>
                 ELSE IF LogHoldsErrors(log)
                 THEN /\ Fail(FetchErrorsText("", log))
                      /\ errors' = FetchErrorsLog(log)
                      /\ UNCHANGED index
                 ELSE /\ index' = nitems
                      /\ pc' = "loop"
                      /\ UNCHANGED <<errors, outcome, raised>>
    /\ data_requests' = data_requests + 1
    /\ UNCHANGED <<cfgvars, sessvars, mutex, threads, envvars, ret, op, attempts,
                   nitems, specific, tolaunch, todo, workvars, batches, probes,
                   exchanges, rt_call, hb_calls, guards_ok>>

\* The operations of one request after another.  A step is a call of
\* _CheckConnected ("guard") or one request to the remote API.
FetchAllFilesSteps == <<"guard", "children">>
FetchFolderIDSteps == <<"guard", "folder_id">>
SimpleOps == {"FetchAllFiles", "MakeDir", "MoveFile", "MoveAllFiles"}

OpStepsUnguarded(o_p, found) == <<"mkdir">>

\* The steps of a public operation, in the order of its body; found says
\* whether MoveFile meets arg_filename among the listed files (line 309).
OpSteps(o_p, found) ==
    CASE o_p = "FetchAllFiles" -> FetchAllFilesSteps
      [] o_p = "MakeDir" -> <<"guard", "mkdir">>
      [] o_p = "MoveFile" -> <<"guard">> \o FetchAllFilesSteps \o FetchFolderIDSteps
                             \o (IF found THEN <<"move_file">> ELSE <<>>)
      [] o_p = "MoveAllFiles" -> <<"guard">> \o FetchFolderIDSteps \o FetchFolderIDSteps
                                 \o <<"move_all">>

\* The error_message that goes with the request of a step.
ErrorMessage(step) ==
    CASE step = "children" -> <<"Could not fetch all files from ", "path_onedrive">>
      [] step = "folder_id" -> <<"Could not fetch the folder ID of ", "path_onedrive">>
      [] step = "mkdir" -> <<"Could not create the directory ", "new_folder_name">>
      [] step = "move_file" -> <<"Could not move file ", "src_path_onedrive">>
      [] step = "move_all" -> <<"Could not move all files from ", "src_path_onedrive">>

\* str(ex) of the TypeError of 'me/drive/items/' + id for an id that is no
\* string (lines 311, 335, 435).
IdError == <<"can only concatenate str (not \"int\") to str">>

\* What can happen at a step: the URL of a move is built from an id the
\* service gave before, which raises when that id is no string; then the
\* request.
StepOutcomes(step) ==
    ListingOutcomes \cup (IF step \in {"move_file", "move_all"} THEN {"bad_id"} ELSE {})

\* FetchAllFiles, MakeDir, MoveFile or MoveAllFiles is called.
SimpleCall(o_p, found) ==
    /\ StartOp(o_p, 0, NoItem, OpSteps(o_p, found))
    /\ pc' = "simple"
    /\ UNCHANGED <<ret, attempts, probes, exchanges>>

\* The next step is self._CheckConnected().
SimpleGuard ==
    /\ pc = "simple" /\ todo # <<>> /\ Head(todo) = "guard"
    /\ todo' = Tail(todo)
    /\ EnterGuard("simple")
    /\ UNCHANGED <<cfgvars, sessvars, sinkvars, threads, envvars, op, nitems,
                   specific, index, tolaunch, workvars, obsvars, rt_call,
                   hb_calls, guards_ok, data_requests>>

\* The next step is a request, followed by _CheckError and _FetchErrors: the
\* answer is the object asked for, an error object, JSON that is no object,
\* or the request fails.
SimpleRequest ==
    /\ pc = "simple" /\ todo # <<>> /\ Head(todo) # "guard"
    /\ \E o \in StepOutcomes(Head(todo)) :
         IF o = "bad_id"
         THEN Fail(IdError) /\ todo' = <<>> /\ UNCHANGED <<errors, data_requests>>
         ELSE /\ data_requests' = data_requests + 1
              /\ IF o = "exception"
                 THEN Fail(TransportError) /\ todo' = <<>> /\ UNCHANGED errors
                 ELSE LET c == CheckError(ErrorMessage(Head(todo)), JsonAnswer(o))
                          log == IF c.error_occurred THEN AppendError(errors, c.text)
                                                     ELSE errors
                      IN IF c.raised # <<>>
                         THEN Fail(c.raised) /\ todo' = <<>> /\ UNCHANGED errors
                         ELSE IF LogHoldsErrors(log)
                         THEN /\ Fail(FetchErrorsText("", log))
                              /\ errors' = FetchErrorsLog(log)
                              /\ todo' = <<>>
                         ELSE /\ todo' = Tail(todo)
                              /\ UNCHANGED <<errors, pc, outcome, raised>>
    /\ UNCHANGED <<cfgvars, sessvars, mutex, threads, envvars, ret, op, attempts,
                   nitems, specific, index, tolaunch, workvars, batches, probes,
                   exchanges, rt_call, hb_calls, guards_ok>>

\* The body of the operation is through.
SimpleReturn ==
    /\ pc = "simple" /\ todo = <<>>
    /\ Return
    /\ UNCHANGED <<cfgvars, sessvars, sinkvars, threads, envvars, ret, op,
                   attempts, loopvars, workvars, batches, netvars>>

NumberThreadsWhole(idx, limit) == limit

\* Lines 379-381 / 428-430.
NumberThreads(idx, limit) == IF idx < limit THEN idx ELSE limit

\* The record of the batches when one more begins: a loop that has made more
\* iterations than the list has items launches nothing (each iteration that
\* launches takes an item), and its further iterations are not recorded.
BeginBatch(bs, n) == IF Len(bs) <= n THEN Append(bs, <<>>) ELSE bs

\* Lines 378-381 / 427-430: the loop test and the size of the next batch.
LoopTest ==
    /\ pc = "loop"
    /\ IF index > 0
       THEN /\ tolaunch' = NumberThreads(index, max_threads)
            /\ batches' = BeginBatch(batches, nitems)
            /\ pc' = "launch"
            /\ UNCHANGED <<outcome, raised>>
       ELSE /\ Return
            /\ UNCHANGED <<tolaunch, batches>>
    /\ UNCHANGED <<cfgvars, sessvars, sinkvars, threads, envvars, ret, op,
                   attempts, nitems, specific, index, todo, workvars, netvars>>

ItemAtFromHead(idx, n) == IF idx >= 0 /\ idx < n THEN n - idx ELSE 0

\* filenames[idx] / keys[idx] of a list of n: the position (from 1) read, a
\* negative idx counting from the end; 0 when Python raises IndexError.
ItemAt(idx, n) ==
    IF idx >= 0 /\ idx < n THEN idx + 1
    ELSE IF idx < 0 /\ idx >= -n THEN n + idx + 1
    ELSE 0

SelectedAll(o_p, s, item) == TRUE

\* Line 434: whether Download starts a worker for the file.
Selected(o_p, s, item) == o_p = "Upload" \/ s = NoItem \/ s = item

HeadersNone(h) == {}

\* The header argument of the thread (line 387 / 436): self.headers.
HeadersArg(h) == h

\* str(ex) of what the for loop raises for an item it cannot handle: a file
\* name that is no string (line 385), a listed id that is no string (line 435).
ItemError(o_p) ==
    IF o_p = "Upload" THEN <<"'int' object has no attribute 'replace'">> ELSE IdError

\* Lines 382-388 / 431-437: one iteration of the for loop up to
\* thread.start(); wellformed says whether the file name (Upload) or the
\* listed id (Download) of the item is a string.
Launch ==
    /\ pc = "launch"
    /\ tolaunch > 0
    /\ LET item == ItemAt(index - 1, nitems) IN
       /\ index' = index - 1
       /\ tolaunch' = tolaunch - 1
       /\ IF item \notin Items
          THEN /\ Fail(<<"list index out of range">>)
               /\ UNCHANGED <<wpc, wheaders, wop, batches>>
          ELSE IF Selected(op, specific, item)
          THEN \E wellformed \in BOOLEAN :
                 IF wellformed
                 THEN /\ wpc' = [wpc EXCEPT ![item] = "started"]
                      /\ wheaders' = [wheaders EXCEPT ![item] = HeadersArg(headers)]
                      /\ wop' = [wop EXCEPT ![item] = op]
                      /\ batches' = [batches EXCEPT ![Len(batches)] = Append(@, item)]
                      /\ pc' = "register"
                      /\ UNCHANGED <<outcome, raised>>
                 ELSE /\ Fail(ItemError(op))
                      /\ UNCHANGED <<wpc, wheaders, wop, batches>>
          ELSE UNCHANGED <<wpc, wheaders, wop, batches, pc, outcome, raised>>
    /\ UNCHANGED <<cfgvars, sessvars, sinkvars, threads, envvars, ret, op,
                   attempts, nitems, specific, todo, res, netvars>>

\* Line 389 / 438: self.threads.append(thread), for the thread just started
\* (which may have run, or ended, in between).
Register ==
    /\ pc = "register"
    /\ threads' = Append(threads, ItemAt(index, nitems))
    /\ pc' = "launch"
    /\ UNCHANGED <<cfgvars, sessvars, sinkvars, envvars, ret, op, attempts,
                   loopvars, workvars, obsvars, netvars>>

\* The for loop is over: _JoinThreads (line 390 / 439).
LaunchDone ==
    /\ pc = "launch"
    /\ tolaunch <= 0
    /\ pc' = "join"
    /\ UNCHANGED <<cfgvars, sessvars, sinkvars, threads, envvars, ret, op,
                   attempts, loopvars, workvars, obsvars, netvars>>

\* thread.join() returns once the thread has ended.
Joined(w) == w \in Finished

\* The for loop of _JoinThreads (lines 218-219) is through: it runs
\* len(self.threads) times and pops one thread each time.
AllJoined(ts) == Len(ts) = 0

\* __del__ (lines 43-47): the caller lets go of the client, between two
\* operations or after a construction that failed; _JoinThreads follows,
\* and is over at once when no thread is registered.
Del ==
    /\ pc \in {"idle", "ctor_failed"}
    /\ pc' = IF AllJoined(threads) THEN "deleted" ELSE "del_join"
    /\ UNCHANGED <<cfgvars, sessvars, sinkvars, threads, envvars, ret, op,
                   attempts, loopvars, workvars, obsvars, netvars>>

\* _JoinThreads, lines 220-222: join the first registered thread, pop it.
JoinStep ==
    /\ pc \in {"join", "del_join"}
    /\ ~AllJoined(threads)
    /\ Joined(wpc[Head(threads)])
    /\ threads' = Tail(threads)
    /\ UNCHANGED <<cfgvars, sessvars, sinkvars, envvars, pc, ret, op, attempts,
                   loopvars, workvars, obsvars, netvars>>

\* _JoinThreads has popped every thread it counted at line 218: on to
\* _FetchErrors, or __del__ is over.
JoinDone ==
    /\ pc \in {"join", "del_join"}
    /\ AllJoined(threads)
    /\ pc' = IF pc = "join" THEN "fetch" ELSE "deleted"
    /\ UNCHANGED <<cfgvars, sessvars, sinkvars, threads, envvars, ret, op,
                   attempts, loopvars, workvars, obsvars, netvars>>

Prefix(o_p) == IF o_p = "Upload" THEN "Could not upload all files: "
                                ELSE "Could not download all files: "

\* _FetchErrors(prefix), lines 206-211 (line 391 / 440).
FetchErrors ==
    /\ pc = "fetch"
    /\ mutex = "free"
    /\ IF LogHoldsErrors(errors)
       THEN /\ Fail(FetchErrorsText(Prefix(op), errors))
            /\ errors' = FetchErrorsLog(errors)
       ELSE /\ pc' = "loop"
            /\ UNCHANGED <<errors, outcome, raised>>
    /\ UNCHANGED <<cfgvars, sessvars, mutex, threads, envvars, ret, op, attempts,
                   loopvars, workvars, batches, netvars>>

(* --------------------------------------------------------- worker threads *)

\* The thread of file i runs UploadIntern / DownloadIntern up to the point
\* where it ends or is about to save an error.
WorkerRun(i) ==
    /\ wpc[i] = "started"
    /\ \E o \in Outcomes(wop[i]) :
         /\ res' = [res EXCEPT ![i] = o]
         /\ wpc' = [wpc EXCEPT ![i] = Intern(wop[i], i, o).next]
    /\ UNCHANGED <<cfgvars, sessvars, sinkvars, threads, envvars, pc, ret, op,
                   attempts, loopvars, wheaders, wop, obsvars, netvars>>

\* _CheckError, line 196: the worker takes the mutex.
WorkerAcquire(i) ==
    /\ wpc[i] = "record"
    /\ mutex = "free"
    /\ mutex' = FileName(i)
    /\ wpc' = [wpc EXCEPT ![i] = "locked"]
    /\ UNCHANGED <<cfgvars, sessvars, errors, threads, envvars, pc, ret, op,
                   attempts, loopvars, res, wheaders, wop, obsvars, netvars>>

\* _CheckError, lines 197-198: append, release the mutex, return.
WorkerAppend(i) ==
    /\ wpc[i] = "locked"
    /\ errors' = AppendError(errors, Intern(wop[i], i, res[i]).text)
    /\ mutex' = "free"
    /\ wpc' = [wpc EXCEPT ![i] = "done"]
    /\ UNCHANGED <<cfgvars, sessvars, threads, envvars, pc, ret, op, attempts,
                   loopvars, res, wheaders, wop, obsvars, netvars>>

Worker == \E i \in Items : WorkerRun(i) \/ WorkerAcquire(i) \/ WorkerAppend(i)

(* --------------------------------------------------------- specifications *)

Guard == CCConnected \/ CCAttempt \/ Connect \/ CCSleep \/ CCHeartbeat \/ CCWait

Batch == UpBody \/ DlBody \/ DlList \/ LoopTest \/ Launch \/ Register \/ LaunchDone
         \/ JoinStep \/ JoinDone \/ FetchErrors

Calls(maxn) ==
    \/ \E n \in 0..maxn : UploadCall(n)
    \/ \E n \in 0..maxn : \E s \in 0..(n + 1) : DownloadCall(n, s)

\* The whole life of a client, from its construction.
Simple ==
    \/ \E o_p \in SimpleOps, found \in BOOLEAN :
         (found => o_p = "MoveFile") /\ SimpleCall(o_p, found)
    \/ SimpleGuard \/ SimpleRequest \/ SimpleReturn

Next ==
    Construct \/ Guard \/ Tick \/ Calls(MaxItemsLife) \/ Simple \/ Batch \/ Worker
    \/ Del

Spec == Init /\ [][Next]_vars

\* A client that construction has connected, with a positive thread limit
\* and the default refresh interval and retry limit.
InitBatch ==
    /\ InitCommon
    /\ clock = StartClock
    /\ pc = "idle"
    /\ max_threads \in 1..MaxThreads
    /\ refresh_interval = DefaultRefreshInterval
    /\ number_retry_connection = DefaultNumberRetry
    /\ token = "a1" /\ refresh_token = "r1" /\ headers = Bearer("a1")
    /\ last_updated = StartClock
    /\ is_connected = TRUE
    /\ probe_plan = 0

NextBatch ==
    CCConnected \/ CCHeartbeat \/ CCWait \/ Calls(MaxItems) \/ Simple \/ Batch \/ Worker
    \/ Del

SpecBatch == InitBatch /\ [][NextBatch]_vars

\* A client that construction has connected at StartClock, with the largest
\* thread limit and the refresh interval 0, when time has passed: the guard
\* call of its next transfer finds the token stale and exchanges it.
InitRefresh ==
    /\ InitCommon
    /\ clock = MaxClock
    /\ pc = "idle"
    /\ max_threads = MaxThreads
    /\ refresh_interval = 0
    /\ number_retry_connection = DefaultNumberRetry
    /\ token = "a1" /\ refresh_token = "r1" /\ headers = Bearer("a1")
    /\ last_updated = StartClock
    /\ is_connected = TRUE
    /\ probe_plan = 0

NextRefresh ==
    CCConnected \/ CCHeartbeat \/ CCWait \/ Calls(MaxItemsRefresh) \/ Batch \/ Worker

SpecRefresh == InitRefresh /\ [][NextRefresh]_vars

\* The steps of the thread that runs the constructor and the public
\* operations, once called.
Orchestrator ==
    Guard \/ SimpleGuard \/ SimpleRequest \/ SimpleReturn \/ Batch

\* The whole life of a client when threads that can take a step keep running:
\* the calling thread goes on with the operation it is in, and every started
\* worker thread is scheduled.  Whether anything is called at all is left
\* to the caller.
FairSpec == Spec /\ WF_vars(Orchestrator) /\ WF_vars(Worker)

(* ------------------------------------------------------------ properties *)

RecordKinds == {"missing_file", "remote_error", "not_dict", "error_twice", "http_error",
                "write_error"}

RECURSIVE Flatten(_)
Flatten(bs) == IF bs = <<>> THEN <<>> ELSE Head(bs) \o Flatten(Tail(bs))

SeqSet(sq) == {sq[k] : k \in 1..Len(sq)}
Launched == SeqSet(Flatten(batches))
LastBatch == IF batches = <<>> THEN {} ELSE SeqSet(batches[Len(batches)])
BatchSizes == [k \in 1..Len(batches) |-> Len(batches[k])]
Ceil(a, b) == (a + b - 1) \div b
Orders(S) == {f \in [1..Cardinality(S) -> S] : \A a, b \in DOMAIN f : a # b => f[a] # f[b]}

InTransfer == op \in {"Upload", "Download"}
CallOver == InTransfer /\ pc = "idle"
AllWorkersSucceeded == \A i \in Items : res[i] \in {"none", "ok"}
Recorded == {i \in Items : res[i] \in RecordKinds}
\* What a worker that saves nothing in the log ended with.
SilentKinds == {"ok", "exception"}
\* The call raised before its batch loop: in the lines before it (371-372,
\* 421-422) or in the listing.
ListingFailed == outcome = "raised" /\ batches = <<>>
\* The call raised inside its for loop, at an item it could not handle (a
\* file name or a listed id that is no string).
LoopRaised ==
    InTransfer /\ outcome = "raised" /\ batches # <<>> /\ raised = ItemError(op)
\* Threads of an earlier call are still around, running or ended: the
\* operation itself has started none.
Leftover == batches = <<>> /\ \E i \in Items : wpc[i] # "idle"
\* The caller has let go of the client.
Gone == pc \in {"del_join", "deleted"}
\* The client is in use and every item met so far could be handled.
Sound == ~Gone /\ ~LoopRaised /\ ~Leftover

\* C1: when every worker succeeds, Upload and Download without a specific
\* file end by returning, after ceil(L/M) batches, each of M workers but the
\* last, which has L mod M (M when M divides L); every file got one worker.
\* (For lists whose every item can be handled.)
C1_BatchCount ==
    (CallOver /\ specific = NoItem /\ AllWorkersSucceeded /\ ~ListingFailed
     /\ ~LoopRaised) =>
        /\ outcome = "returned"
        /\ Len(batches) = Ceil(nitems, max_threads)
        /\ \A k \in 1..Len(batches) :
              Len(batches[k]) =
                  IF k < Len(batches) \/ nitems % max_threads = 0
                  THEN max_threads ELSE nitems % max_threads
        /\ Len(Flatten(batches)) = nitems
        /\ Launched = 1..nitems
        /\ \A i \in 1..nitems : res[i] = "ok"

C1_Witness ==
    /\ CallOver /\ op = "Upload" /\ outcome = "returned"
    /\ nitems = 5 /\ max_threads = 2
    /\ BatchSizes = <<2, 2, 1>>
    /\ \A i \in 1..5 : res[i] = "ok"

\* C2: once a worker of a batch has recorded a failure, the call never
\* reaches another loop test: the failures are all of the last batch
\* launched, the call ends by raising with every worker of that batch
\* ended, the files of the earlier batches keep their results, and no file
\* beyond the launched batches was ever given a worker.  (For lists whose
\* every item can be handled.)
C2_FailFast ==
    (InTransfer /\ Recorded # {} /\ Sound) =>
        /\ Recorded \subseteq LastBatch
        /\ pc \in {"launch", "register", "join", "fetch", "idle"}
        /\ \A i \in Launched \ LastBatch :
              wpc[i] \in Finished /\ res[i] \in SilentKinds
        /\ \A i \in Items \ Launched : wpc[i] = "idle" /\ res[i] = "none"
        /\ pc = "idle" =>
              /\ outcome = "raised"
              /\ \A i \in LastBatch : wpc[i] \in Finished /\ res[i] # "none"

C2_Witness ==
    /\ CallOver /\ op = "Download" /\ specific = NoItem /\ outcome = "raised"
    /\ nitems = 5 /\ max_threads = 2
    /\ batches = <<(<<5, 4>>), (<<3, 2>>)>>
    /\ res[3] = "http_error" /\ res[2] = "ok" /\ res[5] = "ok" /\ res[4] = "ok"
    /\ res[1] = "none" /\ wpc[1] = "idle"

\* C3: the running workers are all of the batch launched last and are at
\* most max_threads; none runs when the error log is read (pc = "fetch"),
\* when the next batch is sized (pc = "loop"), or when the call is over.
C3_Barrier ==
    /\ Running \subseteq LastBatch
    /\ Cardinality(Running) <= max_threads
    /\ pc \in {"fetch", "loop", "idle"} => Running = {}

\* The texts that the workers f[1], f[2], ... save, in that order.
TextsOf(f) == [k \in DOMAIN f |-> Intern(op, f[k], res[f[k]]).text]

\* C4: the log holds exactly the texts of the workers that have saved one,
\* each once, in some order; when the call raises after a batch, the
\* message is the prefix and exactly the texts of the workers of that batch
\* that failed, each once, and the log is empty; with nothing recorded the
\* log is empty, so that _FetchErrors returns.  (A call that raises inside
\* its for loop never comes to _FetchErrors.)
C4_ErrorSink ==
    /\ (InTransfer /\ pc \in {"launch", "register", "join", "fetch"}) =>
          \E f \in Orders({i \in Recorded : wpc[i] = "done"}) : errors = TextsOf(f)
    /\ (CallOver /\ outcome = "raised" /\ ~ListingFailed /\ ~LoopRaised) =>
          /\ Recorded # {}
          /\ \E f \in Orders(Recorded) :
                raised = FetchErrorsText(Prefix(op), TextsOf(f))
    /\ (Sound /\ pc \in {"idle", "loop"}) => errors = <<>>

C4_Witness ==
    /\ CallOver /\ outcome = "raised"
    /\ Cardinality(Recorded) = 2 /\ errors = <<>>
    /\ \E i, j \in Recorded : i # j /\ res[i] # res[j]

\* C5: a call returns normally only when no worker ended by an exception
\* and no transfer failed: every failure is in the log and raises.
C5_FailuresRecorded ==
    (CallOver /\ outcome = "returned") =>
        /\ \A i \in Items : wpc[i] # "dead"
        /\ AllWorkersSucceeded

\* A client that construction has handed to its caller.
Constructed ==
    op \in {"Upload", "Download"} \cup SimpleOps \/ (op = "ctor" /\ pc = "idle")

\* C6: with a retry limit of at least 1, _CheckConnected fails with the
\* connection error after at most that many probes; and when the probe first
\* answers 200 on attempt k, k no larger than the limit, the connect loop
\* ends after exactly k probes and without the connection error (a token
\* exchange or a probe that raises ends it earlier, with its own exception).
C6_ProbeCount ==
    (op = "ctor" /\ number_retry_connection >= 1) =>
        /\ (pc = "ctor_failed" /\ raised = ConnectionError) =>
              probes <= number_retry_connection
        /\ (/\ probe_plan \in 1..number_retry_connection
            /\ pc \in {"cc_hb", "cc_wait", "ctor_failed"}
            /\ raised \notin AuthErrors) =>
              probes = probe_plan /\ raised # ConnectionError

\* C7: _CheckLastHeartbeat calls _RefreshToken exactly when now -
\* last_updated > refresh_interval, and two calls at the same clock value
\* refresh at most once in total.
C7_Heartbeat ==
    /\ \A k \in 1..Len(hb_calls) :
          hb_calls[k].called <=>
              (hb_calls[k].now - hb_calls[k].last > refresh_interval)
    /\ (Len(hb_calls) = 2 /\ hb_calls[1].now = hb_calls[2].now) =>
          ~(hb_calls[1].refreshed /\ hb_calls[2].refreshed)

\* C8: a _RefreshToken that fails raises to the caller and leaves token,
\* refresh_token, headers and last_updated as they were before the call.
C8_RefreshAtomic ==
    rt_call.status = "raised" =>
        /\ outcome = "raised"
        /\ pc \in {"idle", "ctor_failed", "del_join", "deleted"}
        /\ Session = rt_call.before

\* C9: the headers of a constructed client are the ones derived from its
\* current access token.
C9_HeadersInSync == Constructed => headers = Bearer(token)

\* C10: no client whose max_threads is 0 or less reaches Upload or Download.
C10_ThreadLimitChecked == op \in {"Upload", "Download"} => max_threads >= 1


(* ------------------------------------------------- construction failures *)

ConfigurationError(msg) ==
    /\ Len(msg) >= 3
    /\ msg[1] = "Could not initialize parameters: "

\* C11: whenever the settings handed to the constructor lack at least one
\* required field, construction fails with the configuration error, which
\* names a required field that is absent or mistyped, and neither a token
\* exchange nor a probe nor any other request has been made.
C11_ConfigFailsFirst ==
    settings.absent # {} =>
        /\ pc \in {"ctor_failed", "deleted"} /\ outcome = "raised"
        /\ ConfigurationError(raised)
        /\ raised[3] \in settings.absent \cup settings.mistyped
        /\ exchanges = 0 /\ probes = 0 /\ data_requests = 0
        /\ rt_call = NoRefresh /\ hb_calls = <<>>
        /\ ~is_connected

C11_Witness ==
    /\ pc = "ctor_failed"
    /\ settings.absent = {"redirect_uri"} /\ settings.mistyped = {}
    /\ raised = <<"Could not initialize parameters: ">>
                \o VariableError("redirect_uri", "not_given")
    /\ exchanges = 0 /\ probes = 0


(* ----------------------------------------------------- the guard at rest *)

InGuard == pc \in {"cc_loop", "cc_hb", "cc_wait"}
\* A step of a worker thread: it settles its transfer, takes the mutex, or
\* saves its text.
WorkerStep == res' # res \/ mutex' # mutex \/ errors' # errors

\* C12: while _CheckConnected runs with the connection up and the token no
\* older than refresh_interval, each of its steps leaves the Session as it
\* is, makes no token exchange and no probe, and does not fail; a guard
\* call of a public operation that starts so has made no network call.
\* (A step in which only time passes, or one of a thread that an earlier
\* call left running, is no step of the guard.)
C12_GuardIdempotent ==
    [][(InGuard /\ is_connected /\ clock - last_updated <= refresh_interval
        /\ clock' = clock /\ ~WorkerStep) =>
          /\ Session' = Session
          /\ is_connected' = is_connected
          /\ exchanges' = exchanges /\ probes' = probes
          /\ rt_call' = rt_call
          /\ (pc = "cc_loop" /\ op # "ctor") => (exchanges = 0 /\ probes = 0)
          /\ pc' \in {"cc_hb", "cc_wait", ret, "idle"}
          /\ (ret # "ctor") => (outcome' = outcome /\ raised' = raised)]_vars

C12_Witness ==
    /\ pc = "cc_wait" /\ op = "MoveAllFiles" /\ guards_ok = 2
    /\ is_connected /\ clock - last_updated = refresh_interval
    /\ exchanges = 0 /\ probes = 0 /\ rt_call = NoRefresh
    /\ Len(hb_calls) = 2
    /\ \A k \in 1..2 : ~hb_calls[k].called


(* ------------------------------------------------- the guard before work *)

PublicOps == {"Upload", "Download"} \cup SimpleOps
\* The workers the operation has started; the threads an earlier call left
\* in the registry are not its own.
WorkersLaunched ==
    IF Leftover THEN {} ELSE {i \in Items : wpc[i] # "idle"}
\* The operations whose first request is made by a nested FetchAllFiles or
\* _FetchFolderID, after a guard call of its own.
Nesting == {"Download", "MoveFile", "MoveAllFiles"}

\* C13: in a public operation, a data request has been sent or a worker
\* launched only after a guard call of that operation has returned (and, where
\* the request belongs to a nested FetchAllFiles or _FetchFolderID, after the
\* nested guard call has returned as well); an operation that raised before
\* its first guard call returned, and any operation that raised the connection
\* error, has sent no data request and launched no worker.
C13_GuardBeforeWork ==
    op \in PublicOps =>
        /\ (data_requests > 0 \/ WorkersLaunched # {} \/ Launched # {}) =>
              guards_ok >= 1
        /\ (op \in Nesting /\ (data_requests > 0 \/ WorkersLaunched # {})) =>
              guards_ok >= 2
        /\ data_requests <= guards_ok
        /\ (outcome = "raised" /\ (guards_ok = 0 \/ raised = ConnectionError)) =>
              (data_requests = 0 /\ WorkersLaunched = {} /\ Launched = {})

C13_Witness ==
    /\ op = "Download" /\ pc = "join"
    /\ guards_ok = 2 /\ data_requests = 1
    /\ rt_call.status = "ok"
    /\ WorkersLaunched = {1}


(* ------------------------------------- a failed exchange in the connect loop *)

\* C14: when the token exchange of a connect attempt fails, the constructor's
\* guard call has failed with that error at once: the attempt made no probe
\* (one probe less than exchanges), it is the last attempt made, whatever the
\* retry limit, and is_connected is false.  (Stated for the attempts that
\* the counters count.)
C14_ExchangeFailurePropagates ==
    (/\ op = "ctor" /\ rt_call.status = "raised" /\ hb_calls = <<>>
     /\ ~Uncounted(attempts, number_retry_connection)) =>
        /\ pc \in {"ctor_failed", "deleted"} /\ outcome = "raised"
        /\ raised = rt_call.error /\ raised \in AuthErrors
        /\ probes = exchanges - 1
        /\ attempts = exchanges
        /\ ~is_connected
        /\ guards_ok = 0

C14_Witness ==
    /\ pc = "ctor_failed" /\ raised = TokenError
    /\ rt_call.status = "raised" /\ hb_calls = <<>>
    /\ token = IntToken /\ headers = Bearer("a1") /\ last_updated = clock
    /\ attempts = 2 /\ exchanges = 2 /\ probes = 1
    /\ number_retry_connection = DefaultNumberRetry
    /\ ~is_connected


(* --------------------------------------------------- the aggregated error *)

\* Upload or Download has raised out of its batch loop.
BatchFailed == CallOver /\ outcome = "raised" /\ batches # <<>>
EarlierBatches ==
    UNION {SeqSet(batches[k]) : k \in 1..(Len(batches) - 1)}

\* C15: when Upload or Download fails at a batch, the one exception it raises
\* carries the prefix of the operation followed by the texts of the failed
\* items of that batch, each once and nothing else: no item of an earlier
\* batch has a failure recorded, and the log is empty whenever an operation
\* has returned or raised, so nothing is left over for a later call.
C15_OneAggregatedError ==
    /\ (BatchFailed /\ ~LoopRaised) =>
          /\ Recorded # {} /\ Recorded \subseteq LastBatch
          /\ EarlierBatches \cap Recorded = {}
          /\ \E f \in Orders(Recorded \cap LastBatch) :
                raised = FetchErrorsText(Prefix(op), TextsOf(f))
    /\ pc = "idle" => errors = <<>>
    /\ (pc = "cc_loop" /\ op \in PublicOps) => errors = <<>>


(* ------------------------------------------------------- the order of work *)

\* C16: the batches take the list from its tail: a batch has at most
\* max_threads workers, started in falling order of list position; every
\* item of a batch lies behind every item of the batch after it; and without
\* a file filter the first worker of the first batch is the last item of the
\* list and the batches launched so far are exactly the tail consumed.
C16_TailToHead ==
    InTransfer =>
        /\ \A k \in 1..Len(batches) :
              /\ Len(batches[k]) <= max_threads
              /\ \A a, b \in 1..Len(batches[k]) :
                    a < b => batches[k][a] > batches[k][b]
        /\ \A k \in 1..(Len(batches) - 1) :
              \A a \in SeqSet(batches[k]), b \in SeqSet(batches[k + 1]) : a > b
        /\ (Selected(op, specific, nitems) /\ batches # <<>> /\ batches[1] # <<>>) =>
              batches[1][1] = nitems
        /\ (specific = NoItem /\ pc \in {"loop", "launch", "join", "fetch"}) =>
              Launched = (index + 1)..nitems

C16_Witness ==
    /\ op = "Upload" /\ nitems = 5 /\ max_threads = 2
    /\ batches = <<(<<5, 4>>), (<<3, 2>>), (<<1>>)>>


(* ------------------------------------------- credentials during a transfer *)

\* C17: from the launch of the first worker of an Upload or Download to the
\* return or raise of the call, no step changes token, refresh_token, headers
\* or last_updated and none makes a token exchange; and the headers handed to
\* each worker launched are the headers of the Session, the same for all.
C17_WorkersKeepCredentials ==
    [][(InTransfer /\ pc # "idle" /\ WorkersLaunched # {}) =>
          /\ token' = token /\ refresh_token' = refresh_token
          /\ headers' = headers /\ last_updated' = last_updated
          /\ exchanges' = exchanges /\ rt_call' = rt_call
          /\ \A i \in WorkersLaunched : wheaders[i] = headers
          /\ \A i \in WorkersLaunched' : wheaders'[i] = headers']_vars

C17_Witness ==
    /\ op = "Upload" /\ pc = "join" /\ nitems = 3 /\ max_threads = 2
    /\ rt_call.status = "ok" /\ rt_call.before.headers # headers
    /\ batches = <<(<<3, 2>>), (<<1>>)>>
    /\ WorkersLaunched = {1, 2, 3}
    /\ \A i \in WorkersLaunched : wheaders[i] = Bearer("a2")
    /\ headers = Bearer("a2") /\ token = "a2"


(* -------------------------------------------------- a missing local file *)

MissingFileText(i) == <<"Could not upload ", FileName(i), ": File does not exist">>
Occurrences(log, text) == Cardinality({k \in DOMAIN log : log[k] = text})

\* C18: an upload worker whose local file is missing makes no request, does
\* not end by an exception, and saves one entry naming the file in the
\* log; when the call is over, every worker of its batch has run to its end
\* and the call has raised the aggregated error, which holds that entry.
\* (The end of the call is stated for lists whose every item can be handled.)
C18_MissingLocalFile ==
    \A i \in Items :
        (op = "Upload" /\ res[i] = "missing_file") =>
            /\ wpc[i] \in {"record", "locked", "done"}
            /\ UploadIntern(i, res[i]).request = "none"
            /\ UploadIntern(i, res[i]).text = MissingFileText(i)
            /\ (wpc[i] = "done" /\ pc \in {"launch", "register", "join", "fetch"}) =>
                  Occurrences(errors, MissingFileText(i)) = 1
            /\ (wpc[i] # "done" /\ pc \in {"launch", "register", "join", "fetch"}) =>
                  Occurrences(errors, MissingFileText(i)) = 0
            /\ (pc \in {"fetch", "idle"} /\ ~LoopRaised) =>
                  /\ i \in LastBatch
                  /\ \A j \in LastBatch : wpc[j] \in Finished
            /\ (pc = "idle" /\ ~LoopRaised) =>
                  /\ outcome = "raised"
                  /\ \E f \in Orders(Recorded) :
                        /\ \E k \in DOMAIN f : f[k] = i
                        /\ raised = FetchErrorsText(Prefix(op), TextsOf(f))

C18_Witness ==
    /\ CallOver /\ op = "Upload" /\ outcome = "raised"
    /\ Cardinality(LastBatch) = 2
    /\ \E i, j \in LastBatch :
          /\ res[i] = "missing_file" /\ res[j] = "ok"
          /\ wpc[i] = "done" /\ wpc[j] = "done"
          /\ raised = FetchErrorsText(Prefix(op), <<MissingFileText(i)>>)


(* ------------------------------------------------- download of one file *)

\* The listed files named specific_file (names are the keys of a dictionary,
\* so there is at most one).
Named == {specific} \cap 1..nitems

\* C19: in a Download with a non-empty specific_file, workers are launched
\* only for the listed file of that name; a call that returns has stepped
\* through the whole listing, ceil(L / max_threads) chunks, and has launched
\* exactly that file; a call that fails at a batch has launched it; and when
\* no listed file has the name, the call launches nothing and, the listing
\* having succeeded, returns normally.  (For a listing whose every id can be
\* handled, in a client no earlier call has left threads in.)
C19_SpecificFile ==
    (op = "Download" /\ specific # NoItem /\ ~Leftover) =>
        /\ Launched \subseteq Named /\ WorkersLaunched = Launched
        /\ (pc = "idle" /\ outcome = "returned") =>
              /\ Launched = Named
              /\ index = 0
              /\ Len(batches) = Ceil(nitems, max_threads)
        /\ (BatchFailed /\ ~LoopRaised) => (Launched = Named /\ Named # {})
        /\ (pc = "idle" /\ Named = {}) =>
              /\ Launched = {}
              /\ ListingFailed \/ outcome = "returned"

C19_Witness ==
    /\ op = "Download" /\ pc = "idle" /\ outcome = "returned"
    /\ nitems = 5 /\ specific = 3 /\ max_threads = 2
    /\ batches = <<(<<>>), (<<3>>), (<<>>)>>
    /\ wpc[3] = "done" /\ res[3] = "ok"


(* ---------------------------------------------------- the worker registry *)

\* C20: self.threads changes only in steps of the orchestrating thread, by
\* an append in the launch loop or a pop of its head in _JoinThreads, never
\* in a step of a worker; it is empty when Upload or Download returns or
\* raises, and whenever a guard call reaches _CheckRequestsCompleted, so the
\* wait there ends at once.
C20_RegistryOwnedByOrchestrator ==
    [][/\ threads' # threads =>
             /\ ~WorkerStep
             /\ \/ pc = "register" /\ Len(threads') = Len(threads) + 1
                                  /\ SubSeq(threads', 1, Len(threads)) = threads
                \/ pc \in {"join", "del_join"} /\ threads # <<>>
                                               /\ threads' = Tail(threads)
       /\ (WorkerStep /\ pc \in {"launch", "register", "join"}) => threads' = threads
       /\ (InTransfer /\ pc # "idle" /\ pc' = "idle") => threads' = <<>>
       /\ pc' = "cc_wait" => threads' = <<>>]_vars


(* ------------------------------------------------------------ termination *)

\* C21: whatever retry limit the constructor has accepted, a guard call of
\* the constructor that finds the connection down, on a drive whose probe
\* never answers 200, comes to an end by raising (the connection error, or
\* the error of a failed token exchange).
C21_ConnectLoopEnds ==
    (op = "ctor" /\ pc = "cc_loop" /\ ~is_connected /\ probe_plan = 0)
        ~> (pc = "ctor_failed")


\* C22: whatever thread limit the constructor has accepted, the batch loop
\* of Upload and Download comes to an end, the call returning or raising,
\* when the workers it launches end; and when an iteration of the loop is
\* through, the items left are fewer by at least one for each iteration made.
C22_BatchLoopEnds ==
    /\ (InTransfer /\ pc = "loop") ~> (pc = "idle")
    /\ []((InTransfer /\ pc = "fetch") => index + Len(batches) <= nitems)

============================================================================
